---------------------------- MODULE Spec2Model ----------------------------
(***************************************************************************)
(* Shot Data API backend (src/api.py): the /extract and /shots request     *)
(* handlers, the rate_limit decorator over the Redis counter, the          *)
(* AIProcessor provider fallback and the DataStore per-user JSON ledger.   *)
(*                                                                         *)
(* Every request is served by a handler thread; a thread's steps are the   *)
(* operations that touch shared state (a Redis command, a provider call,   *)
(* a file open/read/write) together with the local computation that        *)
(* follows each of them.                                                   *)
(***************************************************************************)
EXTENDS Integers, Sequences, FiniteSets, TLC

(***************************** bounds ***************************************)
NumProcs == 2        \* handler threads that may run at the same time
MaxRequests == 4     \* requests started while threads run concurrently
MaxImages == 2       \* /extract requests that carry an image file
MaxTime == 1         \* last clock instant reached
MaxDayTime == 2      \* last clock instant reached where midnight is crossed
TicksPerDay == 2     \* clock instants in one calendar day (and in 86400 s)
MaxMicro == 1        \* largest microsecond part a clock reading may carry
MaxTextLen == 4      \* tokens of an enumerated completion text

(***************************** program constants ****************************)
DAILY_LIMIT_AUTH == 20
DAILY_LIMIT_ANON == 3
RESPONSE_TIMEOUT == 2      \* seconds
None == -1                 \* redis GET of a missing key / a key with no TTL

Procs == 1..NumProcs
Users == {"u1", "u2"}          \* session['user_id'] values (Google 'sub')
IPs == {"ip1"}                 \* X-Forwarded-For / remote_addr values
NoUser == "anon"               \* session without user_id
Days == 0..(MaxDayTime \div TicksPerDay)

(***************************** provider text ********************************)
\* The text of a provider reply is a sequence of tokens: an opening brace, a
\* closing brace, a "key": value member (with its separator; a units
\* sub-object is one member), or a run of other characters (prose, fences).
LB == [t |-> "{", k |-> "", v |-> ""]
RB == [t |-> "}", k |-> "", v |-> ""]
Prose == [t |-> "prose", k |-> "", v |-> ""]
Member(k, v) == [t |-> "member", k |-> k, v |-> v]

MetricKeys == {"ball_speed", "launch_angle", "spin_rate", "carry_distance",
               "club_speed", "smash_factor", "apex_height"}

TextProse == <<Prose>>
TextEmptyObject == <<LB, RB>>
TextFenced == <<Prose, LB, Member("ball_speed", "150.2"),
                Member("launch_angle", "null"), RB, Prose>>
TextAllNull == <<LB, Member("ball_speed", "null"), Member("launch_angle", "null"),
                 Member("spin_rate", "null"), Member("carry_distance", "null"),
                 Member("club_speed", "null"), Member("smash_factor", "null"),
                 Member("apex_height", "null"), RB>>
TextMalformed == <<LB, Prose, RB>>
TextTwoObjects == <<LB, Member("ball_speed", "150.2"), RB, Prose,
                    LB, Member("ball_speed", "99.0"), RB>>
TextExtraKey == <<LB, Member("ball_speed", "150.2"), Member("note", "hi"),
                  Member("units", "{mph}"), RB>>
Texts == {TextProse, TextEmptyObject, TextFenced, TextAllNull, TextMalformed,
          TextTwoObjects, TextExtraKey}

\* re.search(r'\{.*\}', text, re.DOTALL): leftmost "{", then greedy to the
\* last "}" of the text. <<>> when there is no match.
ReSearch(text) ==
    LET opens == {i \in 1..Len(text) : text[i] = LB}
        closes == {j \in 1..Len(text) : text[j] = RB}
    IN IF opens = {} THEN <<>>
       ELSE LET i == CHOOSE x \in opens : \A y \in opens : x <= y
                after == {j \in closes : j > i}
            IN IF after = {} THEN <<>>
               ELSE LET j == CHOOSE x \in after : \A y \in after : y <= x
                    IN SubSeq(text, i, j)

\* json.loads on a matched substring: it raises unless the substring is one
\* object, i.e. only members between its first and last token.
JsonValid(sub) ==
    /\ Len(sub) >= 2
    /\ sub[1] = LB
    /\ sub[Len(sub)] = RB
    /\ \A i \in 2..(Len(sub) - 1) : sub[i].t = "member"

\* The dict json.loads returns, as its set of <<key, value>> items; of a
\* repeated key the last value is kept.
JsonLoads(sub) ==
    {<<sub[i].k, sub[i].v>> : i \in
        {i \in 2..(Len(sub) - 1) :
            \A j \in (i + 1)..(Len(sub) - 1) : sub[j].k # sub[i].k}}

\* Lines 144-149 and 195-200: the value extract_with_* returns for a 200
\* reply carrying text. <<>> is Python's None, <<d>> the dict d.
ParseReply(text) ==
    LET m == ReSearch(text)
    IN IF m = <<>> THEN <<>>
       ELSE IF JsonValid(m) THEN <<JsonLoads(m)>>
       ELSE <<>>

\* Python truthiness of an Optional[dict]: None and {} are falsy.
Truthy(result) == result # <<>> /\ result[1] # {}


(***************************** state ****************************************)
VARIABLES
    now,        \* the clock read by datetime.now(), in instants
    geminiKey,  \* CONFIG['GEMINI_API_KEY'] is set
    openaiKey,  \* CONFIG['OPENAI_API_KEY'] is set
    callers,    \* the sessions that send requests in this behaviour
    replies,    \* what the providers may answer in this behaviour
    redis,      \* redis_client: key -> counter value, None when missing
    expireAt,   \* redis_client: key -> instant its TTL runs out, None if no TTL
    file,       \* data/user_<id>.json of each user
    pc,         \* where each handler thread stands
    req,        \* the request a thread is serving
    loc,        \* the thread's local variables
    hist,       \* what the request has done so far (provider calls, writes)
    resp,       \* the response the thread has produced
    started,    \* requests counted against MaxRequests so far
    images,     \* requests with an image file started so far
    allowed,    \* per key: requests that passed the quota check
    returned,   \* per user: the records of the save_shot calls that returned
    faulted     \* per user: a write of the user's file has failed

vars == <<now, geminiKey, openaiKey, callers, replies, redis, expireAt, file, pc, req,
          loc, hist, resp, started, images, allowed, returned, faulted>>

Keys == [cls : {"user"}, id : Users, day : Days]
            \cup [cls : {"anon"}, id : IPs, day : Days]

\* datetime.now().strftime('%Y-%m-%d')
DayOf(t) == t \div TicksPerDay

\* Lines 64-74: the counter key and the limit of a session.
KeyOf(user, ip, t) ==
    IF user # NoUser THEN [cls |-> "user", id |-> user, day |-> DayOf(t)]
    ELSE [cls |-> "anon", id |-> ip, day |-> DayOf(t)]

LimitOf(user) == IF user # NoUser THEN DAILY_LIMIT_AUTH ELSE DAILY_LIMIT_ANON

Limit(k) == IF k.cls = "user" THEN DAILY_LIMIT_AUTH ELSE DAILY_LIMIT_ANON

\* A user's file: "missing" (never written), "ok" (a JSON document with the
\* shots list) or "bad" (empty after truncation, or not a JSON document).
NoFile == [state |-> "missing", shots |-> <<>>]
BadFile == [state |-> "bad", shots |-> <<>>]
OkFile(shots) == [state |-> "ok", shots |-> shots]

\* Lines 246-250 and 263-268: open + json.load under a bare except.
LoadShots(f) == IF f.state = "ok" THEN f.shots ELSE <<>>

NoReq == [route |-> "none", user |-> NoUser, ip |-> "ip1", image |-> "absent"]
NoLoc == [key |-> [cls |-> "anon", id |-> "ip1", day |-> 0], limit |-> 0,
          current |-> 0, elapsed |-> 0, result |-> <<>>, processor |-> <<>>,
          user_data |-> <<>>, record |-> <<>>]
NoHist == [gem |-> "none", gemValue |-> <<>>, oai |-> "none",
           gemCalls |-> 0, oaiCalls |-> 0, writes |-> 0, incrs |-> 0,
           beforeOpenai |-> 0, saveFailed |-> FALSE, appends |-> 0]
NoResp == [status |-> 0, error |-> "", data |-> <<>>, shot_id |-> <<>>,
           saved |-> FALSE, processor |-> <<>>, rate_limit |-> <<>>,
           shots |-> <<>>, reset_time |-> <<>>]

\* The state after construction: no counter, no file, every thread idle.
Fresh ==
    /\ now = 0
    /\ redis = [k \in Keys |-> None]
    /\ expireAt = [k \in Keys |-> None]
    /\ file = [u \in Users |-> NoFile]
    /\ pc = [p \in Procs |-> "idle"]
    /\ req = [p \in Procs |-> NoReq]
    /\ loc = [p \in Procs |-> NoLoc]
    /\ hist = [p \in Procs |-> NoHist]
    /\ resp = [p \in Procs |-> NoResp]
    /\ started = 0
    /\ images = 0
    /\ allowed = [k \in Keys |-> 0]
    /\ returned = [u \in Users |-> <<>>]
    /\ faulted = [u \in Users |-> FALSE]

shared == <<redis, expireAt, file, allowed, returned, faulted>>
config == <<geminiKey, openaiKey, callers, replies>>
counts == <<started, images>>

(***************************** responses ************************************)
\* Lines 98-107: a (body, status) tuple gets the rate_limit object; a bare
\* response object is returned as it is.
WithRateLimit(r, current, limit) ==
    [r EXCEPT !.rate_limit = <<[used |-> current + 1, limit |-> limit,
                                remaining |-> limit - (current + 1)]>>]

ErrorTuple(status, msg) == [NoResp EXCEPT !.status = status, !.error = msg]

\* The microsecond part of a reading of datetime.now().
Micros == 0..MaxMicro

\* Lines 87-89: a day is added to the reading (instant t, microsecond us) and
\* replace(hour=0, minute=0, second=0) clears the hour, minute and second; the
\* microsecond is not among its arguments and stays.
ResetTime(t, us) ==
    [tick |-> DayOf(t + TicksPerDay) * TicksPerDay, micro |-> us]

\* Lines 84-90
Denied(limit, t, us) ==
    [NoResp EXCEPT !.status = 429, !.error = "Daily limit exceeded",
                   !.reset_time = <<ResetTime(t, us)>>]

\* Lines 365-371: jsonify(...) alone, not a tuple.
Success(shot_id, data, processor) ==
    [NoResp EXCEPT !.status = 200, !.shot_id = shot_id, !.data = <<data>>,
                   !.processor = processor, !.saved = (shot_id # <<>>)]

(***************************** a request arrives ****************************)
\* A thread that is idle or has sent its response takes the next request, a
\* POST /extract or a GET /shots; lines 64-74 compute the key. A counted
\* request is one of the at most MaxRequests of a concurrent behaviour.
Begin(p, counted) ==
    /\ pc[p] \in {"idle", "done"}
    /\ counted => started < MaxRequests
    /\ \E route \in {"extract", "shots"}, user \in callers, ip \in IPs,
          image \in {"absent", "noname", "file"} :
        /\ route = "shots" => image = "absent"
        /\ image = "file" => images < MaxImages
        /\ req' = [req EXCEPT ![p] = [route |-> route, user |-> user,
                                      ip |-> ip, image |-> image]]
        /\ images' = IF image = "file" THEN images + 1 ELSE images
        /\ IF route = "extract"
           THEN /\ loc' = [loc EXCEPT ![p] = [NoLoc EXCEPT
                               !.key = KeyOf(user, ip, now),
                               !.limit = LimitOf(user)]]
                /\ pc' = [pc EXCEPT ![p] = "get"]
           ELSE /\ loc' = [loc EXCEPT ![p] = NoLoc]
                /\ pc' = [pc EXCEPT ![p] = "shots"]
    /\ hist' = [hist EXCEPT ![p] = NoHist]
    /\ resp' = [resp EXCEPT ![p] = NoResp]
    /\ started' = IF counted THEN started + 1 ELSE started
    /\ UNCHANGED <<now, config, shared>>

(***************************** rate_limit ***********************************)
\* RedisGet with `current > limit` in place of `current >= limit`.
RedisGet_OffByOne(p) ==
    /\ pc[p] = "get"
    /\ LET v == redis[loc[p].key]
           current == IF v = None THEN 0 ELSE v
       IN /\ loc' = [loc EXCEPT ![p].current = current]
          /\ IF current > loc[p].limit
             THEN /\ \E us \in Micros :
                      resp' = [resp EXCEPT ![p] = Denied(loc[p].limit, now, us)]
                  /\ pc' = [pc EXCEPT ![p] = "done"]
             ELSE /\ resp' = resp
                  /\ pc' = [pc EXCEPT ![p] = "incr"]
    /\ UNCHANGED <<now, config, shared, req, hist, counts>>

\* RedisGet where the denial is built but the handler is called all the same.
RedisGet_DenyLate(p) ==
    /\ pc[p] = "get"
    /\ LET v == redis[loc[p].key]
           current == IF v = None THEN 0 ELSE v
       IN /\ loc' = [loc EXCEPT ![p].current = current]
          /\ IF current >= loc[p].limit
             THEN /\ \E us \in Micros :
                      resp' = [resp EXCEPT ![p] = Denied(loc[p].limit, now, us)]
                  /\ pc' = [pc EXCEPT ![p] = "expire"]
             ELSE /\ resp' = resp
                  /\ pc' = [pc EXCEPT ![p] = "incr"]
    /\ UNCHANGED <<now, config, shared, req, hist, counts>>

\* Lines 76-90: GET, then the comparison with the limit.
RedisGet(p) ==
    /\ pc[p] = "get"
    /\ LET v == redis[loc[p].key]
           current == IF v = None THEN 0 ELSE v
       IN /\ loc' = [loc EXCEPT ![p].current = current]
          /\ IF current >= loc[p].limit
             THEN /\ \E us \in Micros :
                      resp' = [resp EXCEPT ![p] = Denied(loc[p].limit, now, us)]
                  /\ pc' = [pc EXCEPT ![p] = "done"]
             ELSE /\ resp' = resp
                  /\ pc' = [pc EXCEPT ![p] = "incr"]
    /\ UNCHANGED <<now, config, shared, req, hist, counts>>

\* Line 93: INCR creates a missing key at 1 and keeps the TTL of an existing one.
RedisIncr(p) ==
    /\ pc[p] = "incr"
    /\ redis' = [redis EXCEPT ![loc[p].key] = IF @ = None THEN 1 ELSE @ + 1]
    /\ allowed' = [allowed EXCEPT ![loc[p].key] = @ + 1]
    /\ hist' = [hist EXCEPT ![p].incrs = @ + 1]
    /\ pc' = [pc EXCEPT ![p] = "expire"]
    /\ UNCHANGED <<now, config, expireAt, file, returned, faulted, req, loc,
                   resp, counts>>

\* Line 94: EXPIRE key 86400, then lines 97 and 341-352: the handler starts
\* and looks for the image.
RedisExpire(p) ==
    /\ pc[p] = "expire"
    /\ expireAt' = [expireAt EXCEPT ![loc[p].key] =
                        IF redis[loc[p].key] = None THEN None
                        ELSE now + TicksPerDay]
    /\ IF req[p].image = "file"
       THEN /\ pc' = [pc EXCEPT ![p] = "gemini"]
            /\ resp' = resp
       ELSE /\ pc' = [pc EXCEPT ![p] = "done"]
            /\ resp' = [resp EXCEPT ![p] = WithRateLimit(
                   ErrorTuple(400, IF req[p].image = "absent"
                                   THEN "No image provided"
                                   ELSE "No image selected"),
                   loc[p].current, loc[p].limit)]
    /\ UNCHANGED <<now, config, redis, file, allowed, returned, faulted, req,
                   loc, hist, counts>>

\* Time passes; Redis drops the keys whose TTL has run out.
Tick(last) ==
    /\ now < last
    /\ now' = now + 1
    /\ LET gone == {k \in Keys : expireAt[k] # None /\ expireAt[k] <= now + 1}
       IN /\ redis' = [k \in Keys |-> IF k \in gone THEN None ELSE redis[k]]
          /\ expireAt' = [k \in Keys |-> IF k \in gone THEN None ELSE expireAt[k]]
    /\ UNCHANGED <<config, file, allowed, returned, faulted, pc, req, loc,
                   hist, resp, counts>>

(***************************** AIProcessor ***********************************)
\* What requests.post can do within timeout=RESPONSE_TIMEOUT: raise a timeout
\* after RESPONSE_TIMEOUT seconds, or sooner raise a network error, return a
\* status other than 200, or return 200 with a completion text. d is the
\* time the call took, in seconds rounded up.
Replies ==
    {[kind |-> "timeout", text |-> <<>>, d |-> RESPONSE_TIMEOUT]}
    \cup [kind : {"neterror", "status"}, text : {<<>>},
          d : 1..(RESPONSE_TIMEOUT - 1)]
    \cup [kind : {"text"}, text : Texts, d : 1..(RESPONSE_TIMEOUT - 1)]

\* Lines 141-153 and 186-204: the value extract_with_* returns after the
\* call; every exception is caught and gives None.
ExtractResult(reply) ==
    IF reply.kind = "text" THEN ParseReply(reply.text) ELSE <<>>

OutcomeOf(reply) ==
    IF reply.kind # "text" THEN reply.kind
    ELSE IF ParseReply(reply.text) = <<>> THEN "noparse" ELSE "parsed"

\* AfterExtraction without the call of save_shot.
AfterExtraction_NeverSave(p, result, label) ==
    /\ pc' = [pc EXCEPT ![p] = "done"]
    /\ resp' = [resp EXCEPT ![p] = Success(<<>>, result[1], label)]

\* Lines 357-371 up to the call of save_shot, for a truthy shot_data.
AfterExtraction(p, result, label) ==
    IF req[p].user # NoUser
    THEN /\ pc' = [pc EXCEPT ![p] = "save_read"]
         /\ resp' = resp
    ELSE /\ pc' = [pc EXCEPT ![p] = "done"]
         /\ resp' = [resp EXCEPT ![p] = Success(<<>>, result[1], label)]

\* Gemini where a falsy result ends process_image with (None, "failed").
Gemini_NoFallback(p) ==
    /\ pc[p] = "gemini"
    /\ IF ~geminiKey
       THEN /\ hist' = [hist EXCEPT ![p].gem = "nokey",
                                    ![p].beforeOpenai = loc[p].elapsed]
            /\ loc' = loc
            /\ pc' = [pc EXCEPT ![p] = "openai"]
            /\ resp' = resp
       ELSE \E reply \in replies :
            LET result == ExtractResult(reply)
                elapsed == loc[p].elapsed + reply.d
                label == <<"gemini", elapsed>>
            IN /\ hist' = [hist EXCEPT ![p].gem = OutcomeOf(reply),
                                       ![p].gemValue = result,
                                       ![p].gemCalls = @ + 1,
                                       ![p].beforeOpenai = elapsed]
               /\ IF Truthy(result)
                  THEN /\ loc' = [loc EXCEPT ![p].elapsed = elapsed,
                                             ![p].result = result,
                                             ![p].processor = label]
                       /\ AfterExtraction(p, result, label)
                  ELSE /\ loc' = [loc EXCEPT ![p].elapsed = elapsed]
                       /\ pc' = [pc EXCEPT ![p] = "done"]
                       /\ resp' = [resp EXCEPT ![p] = WithRateLimit(
                              ErrorTuple(422, "Failed to extract data from image"),
                              loc[p].current, loc[p].limit)]
    /\ UNCHANGED <<now, config, shared, req, counts>>

\* Gemini where a call without a result is made again.
Gemini_Retry(p) ==
    /\ pc[p] = "gemini"
    /\ IF ~geminiKey
       THEN /\ hist' = [hist EXCEPT ![p].gem = "nokey",
                                    ![p].beforeOpenai = loc[p].elapsed]
            /\ loc' = loc
            /\ pc' = [pc EXCEPT ![p] = "openai"]
            /\ resp' = resp
       ELSE \E reply \in replies :
            LET result == ExtractResult(reply)
                elapsed == loc[p].elapsed + reply.d
                label == <<"gemini", elapsed>>
            IN /\ hist' = [hist EXCEPT ![p].gem = OutcomeOf(reply),
                                       ![p].gemValue = result,
                                       ![p].gemCalls = @ + 1,
                                       ![p].beforeOpenai = elapsed]
               /\ IF Truthy(result)
                  THEN /\ loc' = [loc EXCEPT ![p].elapsed = elapsed,
                                             ![p].result = result,
                                             ![p].processor = label]
                       /\ AfterExtraction(p, result, label)
                  ELSE /\ loc' = [loc EXCEPT ![p].elapsed = elapsed]
                       /\ pc' = [pc EXCEPT ![p] =
                                    IF hist[p].gemCalls = 0 THEN "gemini"
                                    ELSE "openai"]
                       /\ resp' = resp
    /\ UNCHANGED <<now, config, shared, req, counts>>

\* Lines 208-214 with 117-153: extract_with_gemini, then `if result:`.
Gemini(p) ==
    /\ pc[p] = "gemini"
    /\ IF ~geminiKey
       THEN /\ hist' = [hist EXCEPT ![p].gem = "nokey",
                                    ![p].beforeOpenai = loc[p].elapsed]
            /\ loc' = loc
            /\ pc' = [pc EXCEPT ![p] = "openai"]
            /\ resp' = resp
       ELSE \E reply \in replies :
            LET result == ExtractResult(reply)
                elapsed == loc[p].elapsed + reply.d
                label == <<"gemini", elapsed>>
            IN /\ hist' = [hist EXCEPT ![p].gem = OutcomeOf(reply),
                                       ![p].gemValue = result,
                                       ![p].gemCalls = @ + 1,
                                       ![p].beforeOpenai = elapsed]
               /\ IF Truthy(result)
                  THEN /\ loc' = [loc EXCEPT ![p].elapsed = elapsed,
                                             ![p].result = result,
                                             ![p].processor = label]
                       /\ AfterExtraction(p, result, label)
                  ELSE /\ loc' = [loc EXCEPT ![p].elapsed = elapsed]
                       /\ pc' = [pc EXCEPT ![p] = "openai"]
                       /\ resp' = resp
    /\ UNCHANGED <<now, config, shared, req, counts>>

\* OpenAI where a request without a result gives its quota unit back.
OpenAI_Refund(p) ==
    /\ pc[p] = "openai"
    /\ IF ~openaiKey
       THEN /\ hist' = [hist EXCEPT ![p].oai = "nokey"]
            /\ loc' = loc
            /\ pc' = [pc EXCEPT ![p] = "done"]
            /\ redis' = [redis EXCEPT ![loc[p].key] = @ - 1]
            /\ resp' = [resp EXCEPT ![p] = WithRateLimit(
                   ErrorTuple(422, "Failed to extract data from image"),
                   loc[p].current, loc[p].limit)]
            /\ UNCHANGED <<expireAt, file, allowed, returned, faulted>>
       ELSE \E reply \in replies :
            LET result == ExtractResult(reply)
                elapsed == loc[p].elapsed + reply.d
                label == <<"openai", elapsed>>
            IN /\ hist' = [hist EXCEPT ![p].oai = OutcomeOf(reply),
                                       ![p].oaiCalls = @ + 1]
               /\ IF Truthy(result)
                  THEN /\ loc' = [loc EXCEPT ![p].elapsed = elapsed,
                                             ![p].result = result,
                                             ![p].processor = label]
                       /\ AfterExtraction(p, result, label)
                       /\ UNCHANGED shared
                  ELSE /\ loc' = [loc EXCEPT ![p].elapsed = elapsed]
                       /\ pc' = [pc EXCEPT ![p] = "done"]
                       /\ redis' = [redis EXCEPT ![loc[p].key] = @ - 1]
                       /\ resp' = [resp EXCEPT ![p] = WithRateLimit(
                              ErrorTuple(422, "Failed to extract data from image"),
                              loc[p].current, loc[p].limit)]
                       /\ UNCHANGED <<expireAt, file, allowed, returned,
                                      faulted>>
    /\ UNCHANGED <<now, config, req, counts>>

\* Lines 216-222 with 155-204: extract_with_openai, then `if result:`, and
\* lines 357-358 when process_image returned (None, "failed").
OpenAI(p) ==
    /\ pc[p] = "openai"
    /\ IF ~openaiKey
       THEN /\ hist' = [hist EXCEPT ![p].oai = "nokey"]
            /\ loc' = loc
            /\ pc' = [pc EXCEPT ![p] = "done"]
            /\ resp' = [resp EXCEPT ![p] = WithRateLimit(
                   ErrorTuple(422, "Failed to extract data from image"),
                   loc[p].current, loc[p].limit)]
       ELSE \E reply \in replies :
            LET result == ExtractResult(reply)
                elapsed == loc[p].elapsed + reply.d
                label == <<"openai", elapsed>>
            IN /\ hist' = [hist EXCEPT ![p].oai = OutcomeOf(reply),
                                       ![p].oaiCalls = @ + 1]
               /\ IF Truthy(result)
                  THEN /\ loc' = [loc EXCEPT ![p].elapsed = elapsed,
                                             ![p].result = result,
                                             ![p].processor = label]
                       /\ AfterExtraction(p, result, label)
                  ELSE /\ loc' = [loc EXCEPT ![p].elapsed = elapsed]
                       /\ pc' = [pc EXCEPT ![p] = "done"]
                       /\ resp' = [resp EXCEPT ![p] = WithRateLimit(
                              ErrorTuple(422, "Failed to extract data from image"),
                              loc[p].current, loc[p].limit)]
    /\ UNCHANGED <<now, config, shared, req, counts>>

(***************************** DataStore *************************************)
\* Lines 232-234: md5 of user_id + the timestamp, 12 hex digits; taken as
\* distinct for distinct (user_id, timestamp).
ShotId(user, t) == <<user, t>>

\* Lines 236-241
ShotRecord(user, t, data) ==
    [id |-> ShotId(user, t), user_id |-> user, timestamp |-> t, data |-> data]

\* SaveRead with the record put in front of the list.
SaveRead_Prepend(p) ==
    /\ pc[p] = "save_read"
    /\ LET u == req[p].user
           rec == ShotRecord(u, now, loc[p].result[1])
       IN loc' = [loc EXCEPT ![p].record = <<rec>>,
                             ![p].user_data = <<rec>> \o LoadShots(file[u])]
    /\ pc' = [pc EXCEPT ![p] = "save_open"]
    /\ UNCHANGED <<now, config, shared, req, hist, resp, counts>>

\* Lines 232-252: the record is built, the user's file is read (any failure
\* gives an empty list) and the record is appended to the list in memory.
SaveRead(p) ==
    /\ pc[p] = "save_read"
    /\ LET u == req[p].user
           rec == ShotRecord(u, now, loc[p].result[1])
       IN loc' = [loc EXCEPT ![p].record = <<rec>>,
                             ![p].user_data = Append(LoadShots(file[u]), rec)]
    /\ pc' = [pc EXCEPT ![p] = "save_open"]
    /\ UNCHANGED <<now, config, shared, req, hist, resp, counts>>

\* Lines 373-374 under the decorator: an exception of save_shot.
SaveFailure(p) ==
    /\ pc' = [pc EXCEPT ![p] = "done"]
    /\ hist' = [hist EXCEPT ![p].saveFailed = TRUE]
    /\ resp' = [resp EXCEPT ![p] = WithRateLimit(ErrorTuple(500, "OSError"),
                                                 loc[p].current, loc[p].limit)]

\* Line 254: open(user_file, 'w') empties the file, or raises and leaves it.
SaveOpen(p) ==
    /\ pc[p] = "save_open"
    /\ \/ /\ file' = [file EXCEPT ![req[p].user] = BadFile]
          /\ hist' = [hist EXCEPT ![p].writes = @ + 1]
          /\ pc' = [pc EXCEPT ![p] = "save_dump"]
          /\ UNCHANGED <<resp, faulted>>
       \/ /\ SaveFailure(p)
          /\ faulted' = [faulted EXCEPT ![req[p].user] = TRUE]
          /\ file' = file
    /\ UNCHANGED <<now, config, redis, expireAt, allowed, returned, req, loc,
                   counts>>

\* The length of the document json.dump writes: it grows with every record
\* and with every item of a record's data (ids and timestamps have one length).
DocSize(shots) ==
    LET size[i \in 0..Len(shots)] ==
            IF i = 0 THEN 0 ELSE size[i - 1] + 1 + Cardinality(shots[i].data)
    IN size[Len(shots)]

\* What the file holds once this thread's document is written from offset 0
\* and the file closed. Another thread may have written its document since
\* this thread's open: if that one is longer, its tail stays behind this
\* thread's text and the file is no JSON document.
Written(f, mine) ==
    IF f.state = "ok" /\ DocSize(f.shots) > DocSize(mine) THEN BadFile
    ELSE OkFile(mine)

\* SaveDump where the document goes to one file whatever the user.
SaveDump_OneFile(p) ==
    /\ pc[p] = "save_dump"
    /\ LET u == req[p].user
       IN \/ /\ file' = [file EXCEPT !["u1"] = Written(@, loc[p].user_data)]
             /\ returned' = [returned EXCEPT ![u] = Append(@, loc[p].record[1])]
             /\ hist' = [hist EXCEPT ![p].writes = @ + 1,
                                     ![p].appends = @ + 1]
             /\ pc' = [pc EXCEPT ![p] = "done"]
             /\ resp' = [resp EXCEPT ![p] = Success(<<loc[p].record[1].id>>,
                                loc[p].result[1], loc[p].processor)]
             /\ faulted' = faulted
          \/ /\ SaveFailure(p)
             /\ faulted' = [faulted EXCEPT ![u] = TRUE]
             /\ UNCHANGED <<file, returned>>
    /\ UNCHANGED <<now, config, redis, expireAt, allowed, req, loc, counts>>

\* Lines 255-257 and 365-371: json.dump and close, then the success
\* response; or the write raises and the file stays as it is.
SaveDump(p) ==
    /\ pc[p] = "save_dump"
    /\ LET u == req[p].user
       IN \/ /\ file' = [file EXCEPT ![u] = Written(@, loc[p].user_data)]
             /\ returned' = [returned EXCEPT ![u] = Append(@, loc[p].record[1])]
             /\ hist' = [hist EXCEPT ![p].writes = @ + 1,
                                     ![p].appends = @ + 1]
             /\ pc' = [pc EXCEPT ![p] = "done"]
             /\ resp' = [resp EXCEPT ![p] = Success(<<loc[p].record[1].id>>,
                                loc[p].result[1], loc[p].processor)]
             /\ faulted' = faulted
          \/ /\ SaveFailure(p)
             /\ faulted' = [faulted EXCEPT ![u] = TRUE]
             /\ UNCHANGED <<file, returned>>
    /\ UNCHANGED <<now, config, redis, expireAt, allowed, req, loc, counts>>

\* Lines 376-386 with 259-268: GET /shots.
GetShots(p) ==
    /\ pc[p] = "shots"
    /\ resp' = [resp EXCEPT ![p] =
                  IF req[p].user = NoUser
                  THEN ErrorTuple(401, "Authentication required")
                  ELSE [NoResp EXCEPT !.status = 200,
                                      !.shots = LoadShots(file[req[p].user])]]
    /\ pc' = [pc EXCEPT ![p] = "done"]
    /\ UNCHANGED <<now, config, shared, req, loc, hist, counts>>

(***************************** specifications ********************************)
Step(p) ==
    \/ RedisGet(p)
    \/ RedisIncr(p)
    \/ RedisExpire(p)
    \/ Gemini(p)
    \/ OpenAI(p)
    \/ SaveRead(p)
    \/ SaveOpen(p)
    \/ SaveDump(p)
    \/ GetShots(p)

\* Requests are served concurrently by the handler threads, within one clock
\* instant, with both credentials configured.
BriefReplies ==
    {[kind |-> "timeout", text |-> <<>>, d |-> RESPONSE_TIMEOUT],
     [kind |-> "text", text |-> TextFenced, d |-> 1]}

Init ==
    /\ Fresh
    /\ geminiKey = TRUE
    /\ openaiKey = TRUE
    /\ callers = Users \cup {NoUser}
    /\ replies = BriefReplies

Next ==
    \/ \E p \in Procs : Begin(p, TRUE)
    \/ \E p \in Procs : Step(p)

Spec == Init /\ [][Next]_vars

\* One client sends its requests one after the other to a single thread,
\* under any configuration of the credentials, while time passes. The number
\* of requests is not bounded: the counter stops at the limit by itself.
SeqInit ==
    /\ Fresh
    /\ geminiKey \in BOOLEAN
    /\ openaiKey \in BOOLEAN
    /\ callers \in {{c} : c \in Users \cup {NoUser}}
    /\ replies = Replies

SeqNext ==
    \/ Begin(1, FALSE)
    \/ Step(1)
    \/ Tick(MaxTime)

SeqSpec == SeqInit /\ [][SeqNext]_vars

\* SeqSpec where a thread that has taken a request keeps running: a handler
\* thread is never suspended for ever and each of its calls returns or raises.
FairSeqSpec == SeqSpec /\ WF_vars(Step(1))

\* One authenticated client sends its requests one after the other while the
\* clock runs into the next day.
DayInit ==
    /\ Fresh
    /\ geminiKey = TRUE
    /\ openaiKey = TRUE
    /\ callers = {"u1"}
    /\ replies = BriefReplies

DayNext ==
    \/ Begin(1, FALSE)
    \/ Step(1)
    \/ Tick(MaxDayTime)

DaySpec == DayInit /\ [][DayNext]_vars

\* What a completion text is made of.
Tokens == {LB, RB, Prose, Member("ball_speed", "150.2")}

\* Every completion text of at most n tokens.
TextsUpTo(n) == UNION {[1..k -> Tokens] : k \in 0..n}

\* One authenticated client sends its requests one after the other, and the
\* providers answer every call with the same completion text, which is any
\* text of at most MaxTextLen tokens or one of Texts.
ParseInit ==
    /\ Fresh
    /\ geminiKey = TRUE
    /\ openaiKey = TRUE
    /\ callers = {"u1"}
    /\ replies \in {{[kind |-> "text", text |-> t, d |-> 1]} :
                       t \in TextsUpTo(MaxTextLen) \cup Texts}

ParseNext ==
    \/ Begin(1, FALSE)
    \/ Step(1)

ParseSpec == ParseInit /\ [][ParseNext]_vars

(***************************** properties ************************************)
\* No thread is inside save_shot for user u.
Quiescent(u) ==
    \A p \in Procs :
        req[p].user = u => pc[p] \notin {"save_read", "save_open", "save_dump"}

\* a is b with some elements left out, the others in the same order.
IsSubseq(a, b) ==
    \E f \in [1..Len(a) -> 1..Len(b)] :
        /\ \A i \in 1..Len(a) : b[f[i]] = a[i]
        /\ \A i, j \in 1..Len(a) : i < j => f[i] < f[j]

\* C1: the number of requests allowed under one (identity, day) key never
\* exceeds the limit of the key, whatever the interleaving of the threads.
C1_AllowedWithinLimit ==
    \A k \in Keys : allowed[k] <= Limit(k)

\* C2: once every save_shot call for a user has returned (and no write of
\* the file has failed), the ledger holds one record per call that returned:
\* two concurrent appends to an empty ledger leave exactly two records.
C2_ConcurrentAppendsKept ==
    \A u \in Users :
        (Quiescent(u) /\ ~faulted[u]) =>
            Len(LoadShots(file[u])) = Len(returned[u])

\* C3: requests sent one after the other under one key: while fewer than
\* the limit L have been allowed the request is allowed, the k-th with
\* used = k and remaining = L - k; once L have been allowed every request is
\* denied and the counter stays at L.
C3_SequentialQuota ==
    /\ \A k \in Keys :
        /\ allowed[k] <= Limit(k)
        /\ redis[k] # None => redis[k] = allowed[k]
    /\ \A p \in Procs :
        (req[p].route = "extract" /\ pc[p] \notin {"idle", "get"}) =>
            LET k == loc[p].key
                L == Limit(k)
                n == loc[p].current
            IN /\ loc[p].limit = L
               /\ IF resp[p].status = 429
                  THEN n = L /\ allowed[k] = L /\ redis[k] = L
                  ELSE /\ n < L
                       /\ allowed[k] = (IF pc[p] = "incr" THEN n ELSE n + 1)
                       /\ resp[p].rate_limit # <<>> =>
                            resp[p].rate_limit[1] =
                                [used |-> n + 1, limit |-> L,
                                 remaining |-> L - (n + 1)]

\* An authenticated client is denied after 20 allowed requests.
C3_Witness ==
    \E p \in Procs :
        /\ pc[p] = "done"
        /\ resp[p].status = 429
        /\ req[p].user # NoUser
        /\ allowed[loc[p].key] = DAILY_LIMIT_AUTH

\* C4: a request denied by the quota check has called no provider, has not
\* incremented the counter and has written nothing to a ledger file; and a
\* provider is called only after the request passed the check.
C4_DeniedCostsNothing ==
    \A p \in Procs :
        /\ resp[p].status = 429 =>
            /\ hist[p].gemCalls = 0 /\ hist[p].oaiCalls = 0
            /\ hist[p].gem = "none" /\ hist[p].oai = "none"
            /\ hist[p].writes = 0
            /\ hist[p].incrs = 0
        /\ hist[p].gemCalls + hist[p].oaiCalls > 0 => hist[p].incrs = 1

\* A request that carries an image is denied.
C4_Witness ==
    \E p \in Procs :
        pc[p] = "done" /\ resp[p].status = 429 /\ req[p].image = "file"

\* C5: when Gemini returned a parseable result, process_image returns it and
\* OpenAI is not invoked.
C5_FirstParseableWins ==
    \A p \in Procs :
        hist[p].gem = "parsed" =>
            /\ pc[p] # "openai"
            /\ hist[p].oai = "none" /\ hist[p].oaiCalls = 0
            /\ loc[p].result = hist[p].gemValue

\* Gemini did not give a result: no credential, a failed call, or a text
\* that does not parse.
GeminiFailed(p) ==
    hist[p].gem \in {"nokey", "timeout", "neterror", "status", "noparse"}

\* C6: after Gemini failed or returned unparseable text, OpenAI is tried
\* (called, or skipped for want of a credential) before any response; a 422
\* is sent only after both providers were tried or skipped.
C6_FallbackBeforeFailure ==
    \A p \in Procs :
        /\ (pc[p] = "done" /\ resp[p].status = 422) =>
              hist[p].gem # "none" /\ hist[p].oai # "none"
        /\ GeminiFailed(p) =>
              \/ pc[p] = "openai"
              \/ /\ hist[p].oai # "none"
                 /\ openaiKey => hist[p].oaiCalls = 1

\* Gemini's text did not parse, OpenAI was called, then the request failed.
C6_Witness ==
    \E p \in Procs :
        /\ pc[p] = "done" /\ resp[p].status = 422
        /\ hist[p].gem = "noparse" /\ hist[p].oaiCalls = 1

\* C7: the time spent in provider calls of one request stays within
\* RESPONSE_TIMEOUT, and a provider is not called once the time already spent
\* has reached RESPONSE_TIMEOUT.
C7_SharedTimeBudget ==
    \A p \in Procs :
        /\ loc[p].elapsed <= RESPONSE_TIMEOUT
        /\ hist[p].beforeOpenai >= RESPONSE_TIMEOUT => hist[p].oaiCalls = 0

\* C8: when save_shot fails after a successful extraction, the response
\* still carries the extracted metrics, marked as not saved.
C8_SaveFailureKeepsMetrics ==
    \A p \in Procs :
        (pc[p] = "done" /\ hist[p].saveFailed) =>
            /\ resp[p].data = loc[p].result
            /\ resp[p].saved = FALSE

\* C9: every record a save_shot call has put in a user's ledger is still
\* there, with its content and in the same relative order, whenever no
\* save_shot call for the user is running (no write of the file having
\* failed).
C9_AppendOnly ==
    \A u \in Users :
        (Quiescent(u) /\ ~faulted[u]) =>
            IsSubseq(returned[u], LoadShots(file[u]))

\* C10: with requests sent one after the other, GET /shots of a user never
\* fails and (no write having failed) returns the records of the save_shot
\* calls that returned, in the order of the calls: none before the first
\* call; and a saved response names the id and data of the last record.
C10_SequentialRoundTrip ==
    \A p \in Procs :
        /\ (pc[p] = "done" /\ req[p].route = "shots" /\ req[p].user # NoUser) =>
              /\ resp[p].status = 200
              /\ ~faulted[req[p].user] =>
                    resp[p].shots = returned[req[p].user]
        /\ (pc[p] = "done" /\ req[p].route = "extract" /\ resp[p].saved) =>
              LET u == req[p].user
                  n == Len(returned[u])
              IN /\ n >= 1
                 /\ resp[p].shot_id = <<returned[u][n].id>>
                 /\ resp[p].data = <<returned[u][n].data>>
                 /\ ~faulted[u] => LoadShots(file[u]) = returned[u]

\* GET /shots returns two different records after two appends.
C10_Witness ==
    \E p \in Procs :
        /\ pc[p] = "done" /\ req[p].route = "shots" /\ req[p].user # NoUser
        /\ ~faulted[req[p].user]
        /\ Len(resp[p].shots) = 2
        /\ resp[p].shots[1].data # resp[p].shots[2].data

\* The request of thread p is inside save_shot or has written to a file.
Saving(p) ==
    pc[p] \in {"save_read", "save_open", "save_dump"} \/ hist[p].writes > 0

\* What C11 says of a finished /extract request: one record appended, named
\* in the response, exactly when `onSuccessPath`; no record otherwise.
RecordIff(p, onSuccessPath) ==
    IF onSuccessPath
    THEN /\ hist[p].appends = 1
         /\ resp[p].saved
         /\ resp[p].shot_id = <<loc[p].record[1].id>>
         /\ LET shots == LoadShots(file[req[p].user])
            IN Len(shots) >= 1 /\ shots[Len(shots)] = loc[p].record[1]
    ELSE /\ hist[p].appends = 0
         /\ ~resp[p].saved
         /\ resp[p].shot_id = <<>>

\* The request was allowed, its extraction gave a result and its caller is
\* authenticated.
SuccessPath(p) ==
    /\ req[p].user # NoUser
    /\ hist[p].incrs = 1
    /\ resp[p].status # 429
    /\ Truthy(loc[p].result)

KeysOf(d) == {kv[1] : kv \in d}

AllowedKeys == MetricKeys \cup {"units"}

\* C12: the data of a success response and of every ledger record carries
\* only the seven metric keys and units.
C12_OnlyMetricKeys ==
    /\ \A p \in Procs :
           (pc[p] = "done" /\ resp[p].status = 200 /\ resp[p].data # <<>>) =>
               KeysOf(resp[p].data[1]) \subseteq AllowedKeys
    /\ \A u \in Users : \A i \in 1..Len(LoadShots(file[u])) :
           KeysOf(LoadShots(file[u])[i].data) \subseteq AllowedKeys

\* C13: every finished /extract request that passed the quota check carries
\* rate_limit with used = the count read before the check plus one, the
\* caller's limit, and remaining = limit - used.
C13_RateLimitOnEveryOutcome ==
    \A p \in Procs :
        (pc[p] = "done" /\ req[p].route = "extract" /\ hist[p].incrs = 1) =>
            resp[p].rate_limit =
                <<[used |-> loc[p].current + 1,
                   limit |-> loc[p].limit,
                   remaining |-> loc[p].limit - (loc[p].current + 1)]>>

\* C14: the record ids of one owner's ledger are pairwise different.
C14_UniqueShotIds ==
    \A u \in Users :
        LET shots == LoadShots(file[u])
        IN \A i, j \in 1..Len(shots) :
               shots[i].id = shots[j].id => i = j

\* C15: once a counter key has an expiry, no step moves it while the key
\* lives: only the first increment sets it.
C15_ExpirySetOnce ==
    [][\A k \in Keys :
          (redis[k] # None /\ expireAt[k] # None /\ redis'[k] # None) =>
              expireAt'[k] = expireAt[k]]_vars

\* C16: the reset time of a denial is strictly later than the instant of the
\* denial, at most one day later, and exactly on a day boundary: every
\* component below the day is zero.
C16_ResetOnDayBoundary ==
    [][\A p \in Procs :
          (pc[p] = "get" /\ pc'[p] = "done" /\ resp'[p].status = 429) =>
              LET r == resp'[p].reset_time[1]
              IN /\ r.tick > now
                 /\ r.tick - now <= TicksPerDay
                 /\ r.tick % TicksPerDay = 0
                 /\ r.micro = 0]_vars

\* The number of LB less the number of RB among text[i..j].
Depth(text, i, j) ==
    Cardinality({x \in i..j : text[x] = LB})
        - Cardinality({x \in i..j : text[x] = RB})

\* The first balanced object literal of a text: from its first LB to the RB
\* that closes it. <<>> when there is none.
FirstBalanced(text) ==
    LET opens == {i \in 1..Len(text) : text[i] = LB}
    IN IF opens = {} THEN <<>>
       ELSE LET i == CHOOSE x \in opens : \A y \in opens : x <= y
                ends == {j \in i..Len(text) : Depth(text, i, j) = 0}
            IN IF ends = {} THEN <<>>
               ELSE LET j == CHOOSE x \in ends : \A y \in ends : x <= y
                    IN SubSeq(text, i, j)

\* C17: the value extract_with_gemini returns for a completion text is the
\* parse failure when the text has no object literal, and the first balanced
\* object literal when that one is valid, whatever surrounds it.
C17_FirstBalancedObject ==
    \A p \in Procs : \A r \in replies :
        (hist[p].gemCalls = 1 /\ r.kind = "text") =>
            LET fb == FirstBalanced(r.text)
            IN /\ fb = <<>> => hist[p].gemValue = <<>>
               /\ (fb # <<>> /\ JsonValid(fb)) =>
                      hist[p].gemValue = <<JsonLoads(fb)>>

\* The provider calls of the request of thread p are in order and bounded,
\* and the request has a response exactly when it is finished.
OrderedAttempts(p) ==
    /\ hist[p].gemCalls <= 1
    /\ hist[p].oaiCalls <= 1
    /\ (pc[p] = "openai" \/ hist[p].oai # "none") =>
           (hist[p].gem # "none" /\ ~Truthy(hist[p].gemValue))
    /\ hist[p].incrs = 1 => (resp[p].status # 0 <=> pc[p] = "done")

\* C18: within a request Gemini is tried before OpenAI, each at most once and
\* OpenAI only after Gemini has returned without a result; and every request
\* that passed the quota check is eventually answered, once.
C18_SequentialBoundedAttempts ==
    /\ [](\A p \in Procs : OrderedAttempts(p))
    /\ \A p \in Procs : (pc[p] = "expire") ~> (pc[p] = "done")

\* A request was answered after one call of each provider.
C18_Witness ==
    \E p \in Procs :
        /\ pc[p] = "done" /\ hist[p].incrs = 1
        /\ hist[p].gemCalls = 1 /\ hist[p].oaiCalls = 1

\* Every record of the list shots is owned by u.
OwnedBy(shots, u) == \A i \in 1..Len(shots) : shots[i].user_id = u

\* C19: a step changes the ledger of u only if it is a step of save_shot for
\* u; a ledger holds only its owner's records; and get_user_shots(u) returns
\* only records owned by u, whatever the other threads do.
C19_LedgerIsolation ==
    [][\A u \in Users :
          /\ file'[u] # file[u] =>
                 \E p \in Procs : /\ req[p].user = u
                                  /\ pc[p] \in {"save_open", "save_dump"}
                                  /\ pc'[p] # pc[p]
          /\ OwnedBy(LoadShots(file'[u]), u)
          /\ \A p \in Procs :
                 (pc[p] = "shots" /\ pc'[p] = "done" /\ req[p].user = u) =>
                     OwnedBy(resp'[p].shots, u)]_vars

\* A user is given a ledger of records while another user has a ledger too.
C19_Witness ==
    \E p \in Procs :
        /\ pc[p] = "done" /\ req[p].route = "shots"
        /\ resp[p].shots # <<>>
        /\ \E u \in Users \ {req[p].user} : LoadShots(file[u]) # <<>>

\* The handler of the /extract request of thread p has been called.
HandlerStarted(p) ==
    /\ req[p].route = "extract"
    /\ \/ pc[p] \in {"gemini", "openai", "save_read", "save_open", "save_dump"}
       \/ pc[p] = "done" /\ resp[p].status # 429

UserKey(u, d) == [cls |-> "user", id |-> u, day |-> d]

\* The increments ever made to the counters of user u, over all days.
Charged(u) ==
    LET sum[d \in Days] ==
            allowed[UserKey(u, d)] + (IF d = 0 THEN 0 ELSE sum[d - 1])
    IN sum[MaxDayTime \div TicksPerDay]

\* The records appended to the ledger of u that are stamped with day d.
StampedOn(u, d) ==
    {i \in 1..Len(returned[u]) : DayOf(returned[u][i].timestamp) = d}

\* C20 (as amended): INCR adds exactly one to the request's key before the
\* handler is called, no step of a request takes anything back from a counter
\* (only the expiry of the key removes it), whatever the outcome; so the
\* records appended for a user never outnumber the increments of the user's
\* counters.
C20_ChargedPerAttempt ==
    [][/\ \A p \in Procs :
              (pc[p] = "incr" /\ pc'[p] # "incr") =>
                  redis'[loc[p].key] = (IF redis[loc[p].key] = None THEN 1
                                        ELSE redis[loc[p].key] + 1)
       /\ now' = now => \A k \in Keys : redis'[k] >= redis[k]
       /\ \A p \in Procs : HandlerStarted(p)' => hist'[p].incrs = 1
       /\ \A u \in Users : Len(returned'[u]) <= Charged(u)']_vars

\* A request on which both providers failed is answered while its key counts
\* two requests and the ledger holds one record.
C20_Witness ==
    \E p \in Procs :
        /\ pc[p] = "done" /\ resp[p].status = 422
        /\ req[p].user # NoUser
        /\ redis[loc[p].key] = 2
        /\ Len(returned[req[p].user]) = 1

\* C20 (as stated): every request whose handler was called has incremented
\* its key once, and the records of a user stamped with a day never outnumber
\* the increments made to the user's counter of that day.
C20_AsStated ==
    /\ \A p \in Procs : HandlerStarted(p) => hist[p].incrs = 1
    /\ \A u \in Users : \A d \in Days :
           Cardinality(StampedOn(u, d)) <= allowed[UserKey(u, d)]

=============================================================================
